---- MODULE Spec2Model ----
(***************************************************************************)
(* Model of pkg/message/service.go: the blinded-routing message service.   *)
(* A single worker (didCommMsgListener) drains a buffered channel of       *)
(* inbound DIDComm messages, runs handleDIDDocReq or handleConnReq, turns  *)
(* a handler error into an ErrorResp, and replies through the messenger.   *)
(*                                                                         *)
(* Go strings that are built by concatenation or formatting are modelled   *)
(* as sequences of tokens, so that "+" and "%s"/"%w" become \o.  A nil     *)
(* error is the empty sequence; every real error has at least one token.   *)
(***************************************************************************)
EXTENDS Integers, Sequences, FiniteSets, TLC

\* ---------------------------------------------------------------- bounds
MaxMsgs == 3            \* messages the transport delivers in one run

\* ------------------------------------------------------------- constants
ChanCap == 1            \* make(chan service.DIDCommMsg, 1)

msgTypeBaseURI    == <<"https://trustbloc.dev/blinded-routing/1.0">>
didDocReq         == msgTypeBaseURI \o <<"/diddoc-req">>
didDocResp        == msgTypeBaseURI \o <<"/diddoc-resp">>
registerRouteReq  == msgTypeBaseURI \o <<"/register-route-req">>
registerRouteResp == msgTypeBaseURI \o <<"/register-route-resp">>

\* ------------------------------------------------------ inputs (bounded)
MsgIDs    == {"r1", "r2"}                 \* msg.ID()
ParentIDs == MsgIDs \cup {""}             \* msg.ParentThreadID()
otherType == <<"https://example.org/other/1.0/ping">>

nil == <<>>                               \* nil error / nil byte slice

\* did.Doc values: only the ID is observable by this package.
Doc(id) == [ID |-> id]

\* newDidDoc.JSONBytes(): the serialized form of a document.
JSONBytes(doc) == <<"{\"id\":\"", doc.ID, "\"}">>

\* did.ParseDocument(bytes): the inverse of JSONBytes on well-formed input,
\* an error on anything else.
ParseDocument(bytes) ==
    IF Len(bytes) = 3 /\ bytes[1] = "{\"id\":\"" /\ bytes[3] = "\"}"
    THEN [doc |-> Doc(bytes[2]), err |-> nil]
    ELSE [doc |-> Doc(""), err |-> <<"invalid did document">>]

theirDoc  == Doc("did:peer:their")
malformed == <<"not a did document">>

\* ConnReq as left in pMsg by msg.Decode: Data and Data.DIDDoc may be nil.
ConnReqs ==
    { [hasData |-> FALSE, hasDIDDoc |-> FALSE, DIDDoc |-> nil],
      [hasData |-> TRUE,  hasDIDDoc |-> FALSE, DIDDoc |-> nil],
      [hasData |-> TRUE,  hasDIDDoc |-> TRUE,  DIDDoc |-> malformed],
      [hasData |-> TRUE,  hasDIDDoc |-> TRUE,  DIDDoc |-> JSONBytes(theirDoc)] }

emptyConnReq == [hasData |-> FALSE, hasDIDDoc |-> FALSE, DIDDoc |-> nil]

\* service.DIDCommMsg as seen through Type(), ID(), ParentThreadID(), Decode().
DIDCommMsg(t, id, pid, dec, body) ==
    [Type |-> t, ID |-> id, ParentThreadID |-> pid, decodable |-> dec, body |-> body]

\* The payload of a diddoc-req or of an unknown type is never read, and an
\* undecodable payload leaves pMsg empty.
Messages ==
    { DIDCommMsg(didDocReq, id, "", TRUE, emptyConnReq) : id \in MsgIDs }
    \cup { DIDCommMsg(otherType, id, "", TRUE, emptyConnReq) : id \in MsgIDs }
    \cup { DIDCommMsg(registerRouteReq, id, pid, FALSE, emptyConnReq) :
             id \in MsgIDs, pid \in ParentIDs }
    \cup { DIDCommMsg(registerRouteReq, m[1], m[2], TRUE, m[3]) :
             m \in MsgIDs \X ParentIDs \X ConnReqs }

noMsg == DIDCommMsg(nil, "", "", FALSE, emptyConnReq)

\* Errors the collaborators may return.
errCreateStore == <<"create store failed">>
errDuplicateStore == <<"store already exists">>      \* storage.ErrDuplicateStore
errOpenStore   == <<"open store failed">>
errRegistrar   == <<"registration failed">>
errVDRI        == <<"vdri create failed">>
errPut         == <<"store put failed">>
errJSON        == <<"json marshal failed">>
errDecode      == <<"json unmarshal failed">>
errNotFound    == <<"data not found">>               \* storage.ErrValueNotFound
errGet         == <<"store get failed">>
ConnErrs       == {<<"E1">>, <<"E2">>}               \* CreateConnection errors
errMediator    == <<"mediator register failed">>
errReply       == <<"reply failed">>

\* Variant: the cause is left out of the formatted error.
Errorf_noCause(prefix, e) == <<prefix>>

\* fmt.Errorf("<prefix> : %w", err) and errors.New(text)
Errorf(prefix, e) == <<prefix>> \o e
ErrorsNew(text)   == <<text>>

\* Outcomes of the collaborator calls made while one message is handled:
\* nil when the call succeeds, the error it returns otherwise.
DocReqOutcomes ==
    [ create : {nil, errVDRI}, put : {nil, errPut}, json : {nil, errJSON} ]

ConnReqOutcomes ==
    [ get : {nil, errGet}, conn : {nil} \cup ConnErrs, reg : {nil, errMediator} ]

noOutcome == [none |-> nil]

\* ------------------------------------------------------------------ state
VARIABLES
    started,    \* New returned a Service and started the listener goroutine
    newErr,     \* the error New returned (nil on success)
    ch,         \* msgCh: the buffered inbound channel
    pc,         \* position of didCommMsgListener: "recv", "handle", "reply"
    msg,        \* the message the listener is working on (last dequeued)
    msgMap,     \* the reply built for msg
    herr,       \* the error returned by the handler for msg (nil if none)
    tStore,     \* the transaction store: key -> value, present keys only
    calls,      \* collaborator calls made for msg, in order
    logs,       \* log entries written for msg, in order
    puts,       \* every successful tStore.Put so far, in order:
                \* <<key, value, error of the serialization that followed>>
    conns,      \* connections the DIDExchange client created: <<connID, myDID>>
    registered, \* connection ids the mediator has registered
    cfg,        \* what CreateStore, OpenStore and MsgRegistrar.Register answered
    nDeq,       \* number of messages taken from the channel; the n-th one
                \* taken is message number n
    replied,    \* the number of the message each ReplyTo call so far was made
                \* for, in call order
    lastReplyErr, \* what the most recent ReplyTo call returned
    nEnq,       \* number of messages the transport has put on the channel
    nextDID,    \* number of peer DIDs created by the VDRI registry
    nextConn,   \* number of connections created by the DIDExchange client
    nextUUID    \* number of uuid.New() calls

vars == <<started, newErr, ch, pc, msg, msgMap, herr, tStore, calls, logs,
          puts, conns, registered, cfg, nDeq, replied, lastReplyErr,
          nEnq, nextDID, nextConn, nextUUID>>

\* Values produced by the collaborators: fresh on every call.
PeerDID(n) == "did:peer:" \o ToString(n)
ConnID(n)  == "conn-" \o ToString(n)
UUID(n)    == "uuid-" \o ToString(n)

nilMsgMap == [kind |-> "nil", ID |-> "", Type |-> nil, Data |-> nil]

\* ------------------------------------------------------- response objects
\* Variant: the response is tagged with the request type.
DIDDocResp_reqType(id, t, docBytes) ==
    [kind |-> "DIDDocResp", ID |-> id, Type |-> didDocReq, Data |-> docBytes]

\* service.NewDIDCommMsgMap(&DIDDocResp{ID, Type, Data: &DIDDocRespData{DIDDoc}})
DIDDocResp(id, t, docBytes) == [kind |-> "DIDDocResp", ID |-> id, Type |-> t, Data |-> docBytes]

\* service.NewDIDCommMsgMap(&ConnResp{ID, Type}): no payload
ConnResp(id, t) == [kind |-> "ConnResp", ID |-> id, Type |-> t, Data |-> nil]

\* service.NewDIDCommMsgMap(&ErrorResp{ID, Type, Data: &ErrorRespData{ErrorMsg}})
ErrorResp(id, t, errMsg) == [kind |-> "ErrorResp", ID |-> id, Type |-> t, Data |-> errMsg]

\* ------------------------------------------------------ transaction store
\* Variant: a put that keeps the first value written under a key.
StorePut_ifAbsent(store, k, v) ==
    [x \in (DOMAIN store) \cup {k} |-> IF x \in DOMAIN store THEN store[x] ELSE v]

\* Variant: a put that drops every other entry.
StorePut_reset(store, k, v) == [x \in {k} |-> v]

\* tStore.Put(k, v): associates v with k, replacing any earlier value.
StorePut(store, k, v) ==
    [x \in (DOMAIN store) \cup {k} |-> IF x = k THEN v ELSE store[x]]

\* Variant: a missing key reads as an empty value instead of an error.
StoreGet_absentOK(store, k, ioErr) ==
    IF ioErr # nil THEN [val |-> "", err |-> ioErr]
    ELSE IF k \in DOMAIN store THEN [val |-> store[k], err |-> nil]
    ELSE [val |-> "", err |-> nil]

\* tStore.Get(k): the value under k, storage.ErrValueNotFound when k is
\* absent, or the I/O error ioErr when the store fails.
StoreGet(store, k, ioErr) ==
    IF ioErr # nil THEN [val |-> "", err |-> ioErr]
    ELSE IF k \in DOMAIN store THEN [val |-> store[k], err |-> nil]
    ELSE [val |-> "", err |-> errNotFound]

\* ---------------------------------------------------------------- handlers
\* What a handler returns and what it leaves behind.  A handler starts from
\* HandlerBase: nothing returned, nothing changed, no call made.
HandlerBase ==
    [ msgMap |-> nilMsgMap, err |-> nil, tStore |-> tStore, puts |-> puts,
      conns |-> conns, registered |-> registered, calls |-> <<>>, nextDID |-> nextDID, nextConn |-> nextConn,
      nextUUID |-> nextUUID ]

\* Variant: the document is serialized before the transaction is saved, so a
\* failed serialization leaves no transaction behind.
handleDIDDocReq_marshalFirst(m, o) ==
    LET newDidDoc == Doc(PeerDID(nextDID + 1))
        cCreate   == [op |-> "Create", method |-> "peer", doc |-> newDidDoc, err |-> o.create]
        cPut      == [op |-> "Put", key |-> m.ID, value |-> newDidDoc.ID, err |-> o.put]
        cJSON     == [op |-> "JSONBytes", doc |-> newDidDoc, err |-> o.json]
    IN  IF o.create # nil
        THEN [HandlerBase EXCEPT !.err = Errorf("create new peer did : ", o.create),
                                 !.calls = <<cCreate>>]
        ELSE IF o.json # nil
        THEN [HandlerBase EXCEPT !.err = Errorf("marshal did doc : ", o.json),
                                 !.calls = <<cCreate, cJSON>>,
                                 !.nextDID = nextDID + 1]
        ELSE IF o.put # nil
        THEN [HandlerBase EXCEPT !.err = Errorf("save txn data : ", o.put),
                                 !.calls = <<cCreate, cJSON, cPut>>,
                                 !.nextDID = nextDID + 1]
        ELSE [HandlerBase EXCEPT !.msgMap = DIDDocResp(UUID(nextUUID + 1), didDocResp,
                                                       JSONBytes(newDidDoc)),
                                 !.calls = <<cCreate, cJSON, cPut>>,
                                 !.nextDID = nextDID + 1,
                                 !.nextUUID = nextUUID + 1,
                                 !.tStore = StorePut(tStore, m.ID, newDidDoc.ID),
                                 !.puts = Append(puts, <<m.ID, newDidDoc.ID, nil>>)]

\* handleDIDDocReq(msg), with the collaborators answering as in o.
handleDIDDocReq(m, o) ==
    LET newDidDoc == Doc(PeerDID(nextDID + 1))
        cCreate   == [op |-> "Create", method |-> "peer", doc |-> newDidDoc, err |-> o.create]
        cPut      == [op |-> "Put", key |-> m.ID, value |-> newDidDoc.ID, err |-> o.put]
        cJSON     == [op |-> "JSONBytes", doc |-> newDidDoc, err |-> o.json]
    IN  IF o.create # nil
        THEN [HandlerBase EXCEPT !.err = Errorf("create new peer did : ", o.create),
                                 !.calls = <<cCreate>>]
        ELSE IF o.put # nil
        THEN [HandlerBase EXCEPT !.err = Errorf("save txn data : ", o.put),
                                 !.calls = <<cCreate, cPut>>,
                                 !.nextDID = nextDID + 1]
        ELSE IF o.json # nil
        THEN [HandlerBase EXCEPT !.err = Errorf("marshal did doc : ", o.json),
                                 !.calls = <<cCreate, cPut, cJSON>>,
                                 !.nextDID = nextDID + 1,
                                 !.tStore = StorePut(tStore, m.ID, newDidDoc.ID),
                                 !.puts = Append(puts, <<m.ID, newDidDoc.ID, o.json>>)]
        ELSE [HandlerBase EXCEPT !.msgMap = DIDDocResp(UUID(nextUUID + 1), didDocResp,
                                                       JSONBytes(newDidDoc)),
                                 !.calls = <<cCreate, cPut, cJSON>>,
                                 !.nextDID = nextDID + 1,
                                 !.nextUUID = nextUUID + 1,
                                 !.tStore = StorePut(tStore, m.ID, newDidDoc.ID),
                                 !.puts = Append(puts, <<m.ID, newDidDoc.ID, nil>>)]

\* Variant: the parent thread id is not checked.
NoParentThread_unchecked(m) == FALSE

\* msg.ParentThreadID() == ""
NoParentThread(m) == m.ParentThreadID = ""

\* Variant: only the outer Data level is checked.
NoDIDDoc_outerOnly(pMsg) == ~pMsg.hasData

\* pMsg.Data == nil || pMsg.Data.DIDDoc == nil
NoDIDDoc(pMsg) == ~pMsg.hasData \/ ~pMsg.hasDIDDoc

\* Variant: the transaction is looked up under the message's own id.
TxnKey_ownID(m) == m.ID

\* The key under which handleConnReq looks up the transaction.
TxnKey(m) == m.ParentThreadID

\* Variant: the transaction is looked up before the document is parsed.
handleConnReq_lookupFirst(m, o) ==
    LET pMsg    == m.body
        parsed  == ParseDocument(pMsg.DIDDoc)
        got     == StoreGet(tStore, TxnKey(m), o.get)
        connID  == ConnID(nextConn + 1)
        cDecode == [op |-> "Decode", err |-> IF m.decodable THEN nil ELSE errDecode]
        cParse  == [op |-> "ParseDocument", bytes |-> pMsg.DIDDoc, err |-> parsed.err]
        cGet    == [op |-> "Get", key |-> TxnKey(m), val |-> got.val, err |-> got.err]
        cConn   == [op |-> "CreateConnection", myDID |-> got.val, theirDID |-> parsed.doc,
                    connID |-> connID, err |-> o.conn]
        cReg    == [op |-> "Register", connectionID |-> connID, err |-> o.reg]
    IN  IF ~m.decodable
        THEN [HandlerBase EXCEPT !.err = Errorf("parse didcomm message : ", errDecode),
                                 !.calls = <<cDecode>>]
        ELSE IF NoParentThread(m)
        THEN [HandlerBase EXCEPT !.err = ErrorsNew("parent thread id mandatory"),
                                 !.calls = <<cDecode>>]
        ELSE IF NoDIDDoc(pMsg)
        THEN [HandlerBase EXCEPT !.err = ErrorsNew("did document mandatory"),
                                 !.calls = <<cDecode>>]
        ELSE IF got.err # nil
        THEN [HandlerBase EXCEPT !.err = Errorf("fetch txn data : ", got.err),
                                 !.calls = <<cDecode, cGet>>]
        ELSE IF parsed.err # nil
        THEN [HandlerBase EXCEPT !.err = Errorf("parse did doc : ", parsed.err),
                                 !.calls = <<cDecode, cGet, cParse>>]
        ELSE IF o.conn # nil
        THEN [HandlerBase EXCEPT !.err = Errorf("create connection : ", o.conn),
                                 !.calls = <<cDecode, cGet, cParse, cConn>>]
        ELSE IF o.reg # nil
        THEN [HandlerBase EXCEPT !.err = Errorf("route registration : ", o.reg),
                                 !.calls = <<cDecode, cGet, cParse, cConn, cReg>>,
                                 !.conns = Append(conns, <<connID, got.val>>),
                                 !.nextConn = nextConn + 1]
        ELSE [HandlerBase EXCEPT !.msgMap = ConnResp(UUID(nextUUID + 1), registerRouteResp),
                                 !.calls = <<cDecode, cGet, cParse, cConn, cReg>>,
                                 !.conns = Append(conns, <<connID, got.val>>),
                                 !.registered = registered \cup {connID},
                                 !.nextConn = nextConn + 1,
                                 !.nextUUID = nextUUID + 1]

\* Variant: a successful registration deletes the transaction it used.
handleConnReq_consume(m, o) ==
    LET pMsg    == m.body
        parsed  == ParseDocument(pMsg.DIDDoc)
        got     == StoreGet(tStore, TxnKey(m), o.get)
        connID  == ConnID(nextConn + 1)
        cDecode == [op |-> "Decode", err |-> IF m.decodable THEN nil ELSE errDecode]
        cParse  == [op |-> "ParseDocument", bytes |-> pMsg.DIDDoc, err |-> parsed.err]
        cGet    == [op |-> "Get", key |-> TxnKey(m), val |-> got.val, err |-> got.err]
        cConn   == [op |-> "CreateConnection", myDID |-> got.val, theirDID |-> parsed.doc,
                    connID |-> connID, err |-> o.conn]
        cReg    == [op |-> "Register", connectionID |-> connID, err |-> o.reg]
    IN  IF ~m.decodable
        THEN [HandlerBase EXCEPT !.err = Errorf("parse didcomm message : ", errDecode),
                                 !.calls = <<cDecode>>]
        ELSE IF NoParentThread(m)
        THEN [HandlerBase EXCEPT !.err = ErrorsNew("parent thread id mandatory"),
                                 !.calls = <<cDecode>>]
        ELSE IF NoDIDDoc(pMsg)
        THEN [HandlerBase EXCEPT !.err = ErrorsNew("did document mandatory"),
                                 !.calls = <<cDecode>>]
        ELSE IF parsed.err # nil
        THEN [HandlerBase EXCEPT !.err = Errorf("parse did doc : ", parsed.err),
                                 !.calls = <<cDecode, cParse>>]
        ELSE IF got.err # nil
        THEN [HandlerBase EXCEPT !.err = Errorf("fetch txn data : ", got.err),
                                 !.calls = <<cDecode, cParse, cGet>>]
        ELSE IF o.conn # nil
        THEN [HandlerBase EXCEPT !.err = Errorf("create connection : ", o.conn),
                                 !.calls = <<cDecode, cParse, cGet, cConn>>]
        ELSE IF o.reg # nil
        THEN [HandlerBase EXCEPT !.err = Errorf("route registration : ", o.reg),
                                 !.calls = <<cDecode, cParse, cGet, cConn, cReg>>,
                                 !.conns = Append(conns, <<connID, got.val>>),
                                 !.nextConn = nextConn + 1]
        ELSE [HandlerBase EXCEPT !.msgMap = ConnResp(UUID(nextUUID + 1), registerRouteResp),
                                 !.calls = <<cDecode, cParse, cGet, cConn, cReg>>,
                                 !.tStore = [k \in (DOMAIN tStore) \ {TxnKey(m)} |-> tStore[k]],
                                 !.conns = Append(conns, <<connID, got.val>>),
                                 !.registered = registered \cup {connID},
                                 !.nextConn = nextConn + 1,
                                 !.nextUUID = nextUUID + 1]

\* Variant: the mediator is given the transaction value instead of the id of
\* the connection just created.
handleConnReq_wrongID(m, o) ==
    LET pMsg    == m.body
        parsed  == ParseDocument(pMsg.DIDDoc)
        got     == StoreGet(tStore, TxnKey(m), o.get)
        connID  == ConnID(nextConn + 1)
        cDecode == [op |-> "Decode", err |-> IF m.decodable THEN nil ELSE errDecode]
        cParse  == [op |-> "ParseDocument", bytes |-> pMsg.DIDDoc, err |-> parsed.err]
        cGet    == [op |-> "Get", key |-> TxnKey(m), val |-> got.val, err |-> got.err]
        cConn   == [op |-> "CreateConnection", myDID |-> got.val, theirDID |-> parsed.doc,
                    connID |-> connID, err |-> o.conn]
        cReg    == [op |-> "Register", connectionID |-> got.val, err |-> o.reg]
    IN  IF ~m.decodable
        THEN [HandlerBase EXCEPT !.err = Errorf("parse didcomm message : ", errDecode),
                                 !.calls = <<cDecode>>]
        ELSE IF NoParentThread(m)
        THEN [HandlerBase EXCEPT !.err = ErrorsNew("parent thread id mandatory"),
                                 !.calls = <<cDecode>>]
        ELSE IF NoDIDDoc(pMsg)
        THEN [HandlerBase EXCEPT !.err = ErrorsNew("did document mandatory"),
                                 !.calls = <<cDecode>>]
        ELSE IF parsed.err # nil
        THEN [HandlerBase EXCEPT !.err = Errorf("parse did doc : ", parsed.err),
                                 !.calls = <<cDecode, cParse>>]
        ELSE IF got.err # nil
        THEN [HandlerBase EXCEPT !.err = Errorf("fetch txn data : ", got.err),
                                 !.calls = <<cDecode, cParse, cGet>>]
        ELSE IF o.conn # nil
        THEN [HandlerBase EXCEPT !.err = Errorf("create connection : ", o.conn),
                                 !.calls = <<cDecode, cParse, cGet, cConn>>]
        ELSE IF o.reg # nil
        THEN [HandlerBase EXCEPT !.err = Errorf("route registration : ", o.reg),
                                 !.calls = <<cDecode, cParse, cGet, cConn, cReg>>,
                                 !.conns = Append(conns, <<connID, got.val>>),
                                 !.nextConn = nextConn + 1]
        ELSE [HandlerBase EXCEPT !.msgMap = ConnResp(UUID(nextUUID + 1), registerRouteResp),
                                 !.calls = <<cDecode, cParse, cGet, cConn, cReg>>,
                                 !.conns = Append(conns, <<connID, got.val>>),
                                 !.registered = registered \cup {got.val},
                                 !.nextConn = nextConn + 1,
                                 !.nextUUID = nextUUID + 1]

\* handleConnReq(msg), with the collaborators answering as in o.
handleConnReq(m, o) ==
    LET pMsg    == m.body
        parsed  == ParseDocument(pMsg.DIDDoc)
        got     == StoreGet(tStore, TxnKey(m), o.get)
        connID  == ConnID(nextConn + 1)
        cDecode == [op |-> "Decode", err |-> IF m.decodable THEN nil ELSE errDecode]
        cParse  == [op |-> "ParseDocument", bytes |-> pMsg.DIDDoc, err |-> parsed.err]
        cGet    == [op |-> "Get", key |-> TxnKey(m), val |-> got.val, err |-> got.err]
        cConn   == [op |-> "CreateConnection", myDID |-> got.val, theirDID |-> parsed.doc,
                    connID |-> connID, err |-> o.conn]
        cReg    == [op |-> "Register", connectionID |-> connID, err |-> o.reg]
    IN  IF ~m.decodable
        THEN [HandlerBase EXCEPT !.err = Errorf("parse didcomm message : ", errDecode),
                                 !.calls = <<cDecode>>]
        ELSE IF NoParentThread(m)
        THEN [HandlerBase EXCEPT !.err = ErrorsNew("parent thread id mandatory"),
                                 !.calls = <<cDecode>>]
        ELSE IF NoDIDDoc(pMsg)
        THEN [HandlerBase EXCEPT !.err = ErrorsNew("did document mandatory"),
                                 !.calls = <<cDecode>>]
        ELSE IF parsed.err # nil
        THEN [HandlerBase EXCEPT !.err = Errorf("parse did doc : ", parsed.err),
                                 !.calls = <<cDecode, cParse>>]
        ELSE IF got.err # nil
        THEN [HandlerBase EXCEPT !.err = Errorf("fetch txn data : ", got.err),
                                 !.calls = <<cDecode, cParse, cGet>>]
        ELSE IF o.conn # nil
        THEN [HandlerBase EXCEPT !.err = Errorf("create connection : ", o.conn),
                                 !.calls = <<cDecode, cParse, cGet, cConn>>]
        ELSE IF o.reg # nil
        THEN [HandlerBase EXCEPT !.err = Errorf("route registration : ", o.reg),
                                 !.calls = <<cDecode, cParse, cGet, cConn, cReg>>,
                                 !.conns = Append(conns, <<connID, got.val>>),
                                 !.nextConn = nextConn + 1]
        ELSE [HandlerBase EXCEPT !.msgMap = ConnResp(UUID(nextUUID + 1), registerRouteResp),
                                 !.calls = <<cDecode, cParse, cGet, cConn, cReg>>,
                                 !.conns = Append(conns, <<connID, got.val>>),
                                 !.registered = registered \cup {connID},
                                 !.nextConn = nextConn + 1,
                                 !.nextUUID = nextUUID + 1]

\* The default branch of the type switch: no handler runs.
unsupported(m) ==
    [HandlerBase EXCEPT
        !.err = <<"unsupported message service type : ">> \o m.Type]

\* --------------------------------------------------------------- dispatcher
\* Variant: the error reply echoes the request type.
RespType_echo(t) == t

\* The response type paired with a request type; any other type is echoed.
RespType(t) ==
    IF t = didDocReq THEN didDocResp
    ELSE IF t = registerRouteReq THEN registerRouteResp
    ELSE t

\* Variant: a switch whose default branch falls into the document handler.
Dispatch_noDefault(m, o) ==
    IF m.Type = registerRouteReq THEN handleConnReq(m, o)
    ELSE handleDIDDocReq(m, [create |-> nil, put |-> nil, json |-> nil])

\* The type switch of didCommMsgListener.
Dispatch(m, o) ==
    IF m.Type = didDocReq THEN handleDIDDocReq(m, o)
    ELSE IF m.Type = registerRouteReq THEN handleConnReq(m, o)
    ELSE unsupported(m)

\* The `if err != nil` block: the handler's result turned into the reply to
\* send and the log entry written for a handler error.
Convert(m, r) ==
    IF r.err # nil
    THEN [r EXCEPT !.msgMap = ErrorResp(UUID(r.nextUUID + 1), RespType(m.Type), r.err),
                   !.nextUUID = r.nextUUID + 1]
    ELSE r

ErrLog(m, e) == [level |-> "error", prefix |-> "", msgType |-> m.Type, id |-> m.ID, text |-> e]
ReplyErrLog(m, e) ==
    [level |-> "error", prefix |-> "sendReply", msgType |-> m.Type, id |-> m.ID, text |-> e]
InfoLog(m) ==
    [level |-> "info", prefix |-> "", msgType |-> m.Type, id |-> m.ID, text |-> <<"success">>]

\* messenger.ReplyTo(msg.ID(), msgMap) answering with error e (nil: sent).
ReplyToCall(m, mm, e) == [op |-> "ReplyTo", msgID |-> m.ID, msgMap |-> mm, err |-> e]

\* --------------------------------------------------------------- New
\* Variant: every CreateStore error is returned, "already exists" included.
getTxnStore_strict(cs, os) ==
    IF cs # nil THEN cs
    ELSE IF os # nil THEN os
    ELSE nil

\* getTxnStore(prov): CreateStore answers cs, OpenStore answers os.
getTxnStore(cs, os) ==
    IF cs # nil /\ cs # errDuplicateStore THEN cs
    ELSE IF os # nil THEN os
    ELSE nil

\* New(config): the error it returns; the listener goroutine is started
\* exactly when that error is nil.
New(cs, os, rg) ==
    IF getTxnStore(cs, os) # nil THEN Errorf("store: ", getTxnStore(cs, os))
    ELSE IF rg # nil THEN Errorf("message service client: ", rg)
    ELSE nil

\* ------------------------------------------------------------------ actions
\* The state New(config) leaves behind when CreateStore answers cs, OpenStore
\* answers os and MsgRegistrar.Register answers rg.
Constructed(cs, os, rg) ==
    /\ cfg = [cs |-> cs, os |-> os, rg |-> rg]
    /\ newErr = New(cs, os, rg)
    /\ started = (New(cs, os, rg) = nil)
    /\ ch = <<>>
    /\ pc = "recv"
    /\ msg = noMsg
    /\ msgMap = nilMsgMap
    /\ herr = nil
    /\ tStore = <<>>
    /\ calls = <<>>
    /\ logs = <<>>
    /\ puts = <<>>
    /\ conns = <<>>
    /\ registered = {}
    /\ nDeq = 0
    /\ replied = <<>>
    /\ lastReplyErr = nil
    /\ nEnq = 0
    /\ nextDID = 0
    /\ nextConn = 0
    /\ nextUUID = 0

\* A service constructed over a fresh provider and a working registrar.
Init == Constructed(nil, nil, nil)

\* A service constructed over any provider and registrar.
InitNew ==
    \E cs \in {nil, errDuplicateStore, errCreateStore},
       os \in {nil, errOpenStore},
       rg \in {nil, errRegistrar} : Constructed(cs, os, rg)

\* The transport hands an inbound message to the service: msgCh <- msg.
Enqueue ==
    /\ started
    /\ nEnq < MaxMsgs
    /\ Len(ch) < ChanCap
    /\ \E m \in Messages : ch' = Append(ch, m)
    /\ nEnq' = nEnq + 1
    /\ UNCHANGED <<started, newErr, pc, msg, msgMap, herr, tStore, calls, logs,
                   puts, conns, registered, cfg, nDeq, replied, lastReplyErr,
                   nextDID, nextConn, nextUUID>>

\* Variant: the next message is taken while the reply for the current one is
\* still to be sent.
Dequeue_early ==
    /\ started
    /\ pc \in {"recv", "reply"}
    /\ ch # <<>>
    /\ msg' = Head(ch)
    /\ ch' = Tail(ch)
    /\ msgMap' = nilMsgMap
    /\ herr' = nil
    /\ calls' = <<>>
    /\ logs' = <<>>
    /\ nDeq' = nDeq + 1
    /\ pc' = "handle"
    /\ UNCHANGED <<started, newErr, tStore, puts, conns, registered, cfg, replied,
                   lastReplyErr, nEnq, nextDID, nextConn, nextUUID>>

\* for msg := range ch
Dequeue ==
    /\ started
    /\ pc = "recv"
    /\ ch # <<>>
    /\ msg' = Head(ch)
    /\ ch' = Tail(ch)
    /\ msgMap' = nilMsgMap
    /\ herr' = nil
    /\ calls' = <<>>
    /\ logs' = <<>>
    /\ nDeq' = nDeq + 1
    /\ pc' = "handle"
    /\ UNCHANGED <<started, newErr, tStore, puts, conns, registered, cfg, replied,
                   lastReplyErr, nEnq, nextDID, nextConn, nextUUID>>

\* The type switch, the handler it selects, and the conversion of a handler
\* error into an ErrorResp.
HandleWith(o) ==
    LET r == Convert(msg, Dispatch(msg, o))
        h == Dispatch(msg, o)
    IN  /\ msgMap' = r.msgMap
        /\ herr' = h.err
        /\ tStore' = r.tStore
        /\ puts' = r.puts
        /\ conns' = r.conns
        /\ registered' = r.registered
        /\ calls' = r.calls
        /\ nextDID' = r.nextDID
        /\ nextConn' = r.nextConn
        /\ nextUUID' = r.nextUUID
        /\ logs' = IF h.err # nil THEN <<ErrLog(msg, h.err)>> ELSE <<>>
        /\ pc' = "reply"
        /\ UNCHANGED <<started, newErr, ch, msg, nEnq, cfg, nDeq, replied, lastReplyErr>>

HandleDIDDocReq ==
    /\ pc = "handle"
    /\ msg.Type = didDocReq
    /\ \E o \in DocReqOutcomes : HandleWith(o)

HandleConnReq ==
    /\ pc = "handle"
    /\ msg.Type = registerRouteReq
    /\ \E o \in ConnReqOutcomes : HandleWith(o)

HandleUnsupported ==
    /\ pc = "handle"
    /\ msg.Type # didDocReq
    /\ msg.Type # registerRouteReq
    /\ HandleWith(noOutcome)

\* Variant: a failed send is attempted a second time.
Reply_retry ==
    /\ pc = "reply"
    /\ \E e \in {nil, errReply} :
        /\ calls' = IF e # nil
                    THEN calls \o <<ReplyToCall(msg, msgMap, e), ReplyToCall(msg, msgMap, nil)>>
                    ELSE Append(calls, ReplyToCall(msg, msgMap, e))
        /\ replied' = IF e # nil THEN replied \o <<nDeq, nDeq>> ELSE Append(replied, nDeq)
        /\ lastReplyErr' = nil
        /\ logs' = Append(logs, IF e # nil THEN ReplyErrLog(msg, e) ELSE InfoLog(msg))
    /\ pc' = "recv"
    /\ UNCHANGED <<started, newErr, ch, msg, msgMap, herr, tStore, puts, conns,
                   registered, cfg, nDeq, nEnq, nextDID, nextConn, nextUUID>>

\* Variant: a failed send undoes the transaction written for the message.
Reply_rollback ==
    /\ pc = "reply"
    /\ \E e \in {nil, errReply} :
        /\ calls' = Append(calls, ReplyToCall(msg, msgMap, e))
        /\ replied' = Append(replied, nDeq)
        /\ lastReplyErr' = e
        /\ logs' = Append(logs, IF e # nil THEN ReplyErrLog(msg, e) ELSE InfoLog(msg))
        /\ tStore' = IF e # nil /\ msg.Type = didDocReq
                     THEN [k \in (DOMAIN tStore) \ {msg.ID} |-> tStore[k]]
                     ELSE tStore
    /\ pc' = "recv"
    /\ UNCHANGED <<started, newErr, ch, msg, msgMap, herr, puts, conns,
                   registered, cfg, nDeq, nEnq, nextDID, nextConn, nextUUID>>

\* Variant: a failed send ends the listener.
Reply_stopOnFail ==
    /\ pc = "reply"
    /\ \E e \in {nil, errReply} :
        /\ calls' = Append(calls, ReplyToCall(msg, msgMap, e))
        /\ replied' = Append(replied, nDeq)
        /\ lastReplyErr' = e
        /\ logs' = Append(logs, IF e # nil THEN ReplyErrLog(msg, e) ELSE InfoLog(msg))
        /\ pc' = IF e # nil THEN "stopped" ELSE "recv"
    /\ UNCHANGED <<started, newErr, ch, msg, msgMap, herr, tStore, puts, conns,
                   registered, cfg, nDeq, nEnq, nextDID, nextConn, nextUUID>>

\* Variant: the success line is written only when the handler succeeded too.
Reply_quietOnHandlerError ==
    /\ pc = "reply"
    /\ \E e \in {nil, errReply} :
        /\ calls' = Append(calls, ReplyToCall(msg, msgMap, e))
        /\ replied' = Append(replied, nDeq)
        /\ lastReplyErr' = e
        /\ logs' = IF e # nil THEN Append(logs, ReplyErrLog(msg, e))
                   ELSE IF herr = nil THEN Append(logs, InfoLog(msg))
                   ELSE logs
    /\ pc' = "recv"
    /\ UNCHANGED <<started, newErr, ch, msg, msgMap, herr, tStore, puts, conns,
                   registered, cfg, nDeq, nEnq, nextDID, nextConn, nextUUID>>

\* err = o.messenger.ReplyTo(msg.ID(), msgMap) and the log line after it.
Reply ==
    /\ pc = "reply"
    /\ \E e \in {nil, errReply} :
        /\ calls' = Append(calls, ReplyToCall(msg, msgMap, e))
        /\ replied' = Append(replied, nDeq)
        /\ lastReplyErr' = e
        /\ logs' = Append(logs, IF e # nil THEN ReplyErrLog(msg, e) ELSE InfoLog(msg))
    /\ pc' = "recv"
    /\ UNCHANGED <<started, newErr, ch, msg, msgMap, herr, tStore, puts, conns,
                   registered, cfg, nDeq, nEnq, nextDID, nextConn, nextUUID>>

Next ==
    \/ Enqueue
    \/ Dequeue
    \/ HandleDIDDocReq
    \/ HandleConnReq
    \/ HandleUnsupported
    \/ Reply

Spec == Init /\ [][Next]_vars

\* The same service, whatever happened at construction.
SpecNew == InitNew /\ [][Next]_vars

\* The listener goroutine is scheduled fairly and every collaborator call
\* returns: each step of the loop that can be taken is eventually taken.
FairSpec ==
    /\ Spec
    /\ WF_vars(Dequeue)
    /\ WF_vars(HandleDIDDocReq)
    /\ WF_vars(HandleConnReq)
    /\ WF_vars(HandleUnsupported)
    /\ WF_vars(Reply)

\* ================================================================= claims
\* The calls to collaborator op recorded in cs, in order.
CallsOf(cs, op) == SelectSeq(cs, LAMBDA c : c.op = op)
NCalls(cs, op)  == Len(CallsOf(cs, op))

\* The calls a handler made (everything but the dispatcher's ReplyTo).
HandlerCalls(cs) == SelectSeq(cs, LAMBDA c : c.op # "ReplyTo")

\* Every call the handler made returned without error.
AllOK(cs) == \A i \in 1..Len(cs) : cs[i].op # "ReplyTo" => cs[i].err = nil

\* The handler for msg has returned (the reply is built, sent or not).
Handled == msg # noMsg /\ pc \in {"reply", "recv"}

\* The reply attempt for msg has returned.
Replied == msg # noMsg /\ pc = "recv"

\* Every ReplyTo recorded for msg carried msg's id and the reply built for it.
RepliesCarry(mm) ==
    \A i \in 1..Len(calls) :
        calls[i].op = "ReplyTo" => calls[i].msgID = msg.ID /\ calls[i].msgMap = mm

\* C1: every dequeued message gets exactly one ReplyTo call, correlated to
\* its own id, whatever the handler's outcome and whether or not the send
\* fails: none before the handler has returned, exactly one afterwards, and
\* no second attempt after a failed one.
C1_ReplyExactlyOnce ==
    /\ pc \in {"handle", "reply"} => NCalls(calls, "ReplyTo") = 0
    /\ Replied => /\ NCalls(calls, "ReplyTo") = 1
                  /\ calls[Len(calls)].op = "ReplyTo"
                  /\ calls[Len(calls)].msgID = msg.ID

\* C1 witness: a message whose handler failed and whose reply send failed
\* too has been through the loop.
C1_Witness ==
    /\ Replied
    /\ herr # nil
    /\ NCalls(calls, "ReplyTo") = 1
    /\ calls[Len(calls)].err # nil

\* The value written by the most recent successful put under key k.
RECURSIVE LastPut(_, _)
LastPut(ps, k) ==
    IF ps = <<>> THEN ""
    ELSE IF ps[Len(ps)][1] = k THEN ps[Len(ps)][2]
    ELSE LastPut(SubSeq(ps, 1, Len(ps) - 1), k)

\* A registration request that passes every validation of handleConnReq.
ValidConnReq(m) ==
    /\ m.Type = registerRouteReq
    /\ m.decodable
    /\ m.ParentThreadID # ""
    /\ m.body.hasData /\ m.body.hasDIDDoc
    /\ m.body.DIDDoc = JSONBytes(theirDoc)

\* C2: round trip.  Once a document request with id r has been handled
\* successfully (its put is recorded), a valid registration request with
\* parentId = r for which every call succeeds is answered with a ConnResp
\* tagged register-route-resp with empty payload, and CreateConnection was
\* called exactly once, with myDID equal to the value stored under r, which
\* is the id of the document created for request r.
C2_RoundTrip ==
    [][ ( /\ pc = "handle" /\ pc' = "reply"
          /\ ValidConnReq(msg)
          /\ msg.ParentThreadID \in DOMAIN tStore
          /\ AllOK(calls') )
        => /\ msgMap'.kind = "ConnResp"
           /\ msgMap'.Type = registerRouteResp
           /\ msgMap'.Data = nil
           /\ herr' = nil
           /\ NCalls(calls', "CreateConnection") = 1
           /\ NCalls(calls', "Register") = 1
           /\ CallsOf(calls', "CreateConnection")[1].myDID = tStore[msg.ParentThreadID]
           /\ CallsOf(calls', "CreateConnection")[1].myDID = LastPut(puts, msg.ParentThreadID)
           /\ CallsOf(calls', "CreateConnection")[1].theirDID = theirDoc
      ]_vars

\* C2 witness: the reply of a successful round trip has been sent.
C2_Witness ==
    /\ Replied
    /\ ValidConnReq(msg)
    /\ msgMap.kind = "ConnResp"
    /\ NCalls(calls, "CreateConnection") = 1
    /\ CallsOf(calls, "CreateConnection")[1].myDID = tStore[msg.ParentThreadID]
    /\ calls[Len(calls)].op = "ReplyTo" /\ calls[Len(calls)].msgMap = msgMap

\* C3: a document request for which creation, put and serialization all
\* succeed produces one DIDDocResp of type diddoc-resp whose payload is the
\* serialized new document; from the moment the reply is about to be sent
\* the store holds, under the request's id, the id of that new document.
C3_DIDDocResp ==
    (Handled /\ msg.Type = didDocReq /\ AllOK(calls))
    => /\ NCalls(calls, "Create") = 1
       /\ msgMap.kind = "DIDDocResp"
       /\ msgMap.Type = didDocResp
       /\ msgMap.Data = JSONBytes(CallsOf(calls, "Create")[1].doc)
       /\ herr = nil
       /\ msg.ID \in DOMAIN tStore
       /\ tStore[msg.ID] = CallsOf(calls, "Create")[1].doc.ID
       /\ RepliesCarry(msgMap)
       /\ NCalls(calls, "ReplyTo") <= 1

\* C3 witness: the DIDDocResp of a successful document request was sent.
C3_Witness ==
    /\ Replied
    /\ msg.Type = didDocReq
    /\ msgMap.kind = "DIDDocResp"
    /\ msg.ID \in DOMAIN tStore
    /\ NCalls(calls, "ReplyTo") = 1

\* C4: a registration request that decodes but has an empty parentId is
\* answered with the error "parent thread id mandatory"; the store is not
\* read and neither CreateConnection nor Register is called.
C4_ParentMandatory ==
    (Handled /\ msg.Type = registerRouteReq /\ msg.decodable /\ msg.ParentThreadID = "")
    => /\ msgMap.kind = "ErrorResp"
       /\ msgMap.Data = <<"parent thread id mandatory">>
       /\ NCalls(calls, "Get") = 0
       /\ NCalls(calls, "CreateConnection") = 0
       /\ NCalls(calls, "Register") = 0
       /\ RepliesCarry(msgMap)

\* C4 witness: such a request, carrying a valid document while the store
\* is not empty, has been answered.
C4_Witness ==
    /\ Replied
    /\ msg.Type = registerRouteReq /\ msg.decodable /\ msg.ParentThreadID = ""
    /\ msg.body.DIDDoc = JSONBytes(theirDoc)
    /\ tStore # <<>>
    /\ msgMap.kind = "ErrorResp"

\* C5: a registration request with a non-empty parentId whose document
\* payload is absent (no Data, or Data without did_doc) is answered with the
\* error "did document mandatory"; neither CreateConnection nor Register is
\* called.
C5_DocMandatory ==
    ( /\ Handled /\ msg.Type = registerRouteReq /\ msg.decodable
      /\ msg.ParentThreadID # ""
      /\ (~msg.body.hasData \/ ~msg.body.hasDIDDoc) )
    => /\ msgMap.kind = "ErrorResp"
       /\ msgMap.Data = <<"did document mandatory">>
       /\ NCalls(calls, "CreateConnection") = 0
       /\ NCalls(calls, "Register") = 0
       /\ RepliesCarry(msgMap)

\* C5 witness: a request with Data present but did_doc missing, whose
\* parentId names an existing transaction, has been answered.
C5_Witness ==
    /\ Replied
    /\ msg.Type = registerRouteReq /\ msg.decodable
    /\ msg.ParentThreadID \in DOMAIN tStore
    /\ msg.body.hasData /\ ~msg.body.hasDIDDoc
    /\ msgMap.kind = "ErrorResp"

\* C6: an otherwise valid registration request whose parentId has no entry
\* in the transaction store is answered with an error reply tagged
\* register-route-resp that carries the error of the single store Get;
\* neither CreateConnection nor Register is called.
C6_UnknownParent ==
    [][ ( /\ pc = "handle" /\ pc' = "reply"
          /\ ValidConnReq(msg)
          /\ msg.ParentThreadID \notin DOMAIN tStore )
        => /\ NCalls(calls', "Get") = 1
           /\ CallsOf(calls', "Get")[1].key = msg.ParentThreadID
           /\ CallsOf(calls', "Get")[1].err # nil
           /\ herr' # nil
           /\ msgMap'.kind = "ErrorResp"
           /\ msgMap'.Type = registerRouteResp
           /\ msgMap'.Data = <<"fetch txn data : ">> \o CallsOf(calls', "Get")[1].err
           /\ NCalls(calls', "CreateConnection") = 0
           /\ NCalls(calls', "Register") = 0
           /\ tStore' = tStore
      ]_vars

\* C6 witness: a valid registration request against a key that was never
\* written, while another key is present, got the not-found error reply.
C6_Witness ==
    /\ Replied
    /\ ValidConnReq(msg)
    /\ msg.ParentThreadID \notin DOMAIN tStore
    /\ tStore # <<>>
    /\ msgMap.kind = "ErrorResp"
    /\ msgMap.Data = <<"fetch txn data : ">> \o errNotFound

\* C7: whenever a handler returns an error, the reply is an ErrorResp that
\* carries the error's message and is tagged diddoc-resp for a diddoc-req,
\* register-route-resp for a register-route-req, and the request's own type
\* only for a type without a paired response type.
C7_ErrorRespType ==
    (Handled /\ herr # nil)
    => /\ msgMap.kind = "ErrorResp"
       /\ msgMap.Data = herr
       /\ msg.Type = didDocReq => msgMap.Type = didDocResp
       /\ msg.Type = registerRouteReq => msgMap.Type = registerRouteResp
       /\ msgMap.Type \notin {didDocReq, registerRouteReq}
       /\ msg.Type \notin {didDocReq, registerRouteReq} => msgMap.Type = msg.Type
       /\ RepliesCarry(msgMap)

\* C7 witness: a failed document request was answered with an ErrorResp.
C7_Witness ==
    /\ Replied
    /\ msg.Type = didDocReq
    /\ herr # nil
    /\ msgMap.kind = "ErrorResp" /\ msgMap.Type = didDocResp
    /\ NCalls(calls, "ReplyTo") = 1

\* s occurs in t as a contiguous run of tokens.
Contains(t, s) ==
    \E i \in 0..(Len(t) - Len(s)) : SubSeq(t, i + 1, i + Len(s)) = s

\* C8: for a message of a type other than the two request types no handler
\* and no collaborator is invoked; a reply is still built and sent, an
\* ErrorResp tagged with the message's own type whose text names that type;
\* and the listener is then ready to take the next message.
C8_Unsupported ==
    (msg # noMsg /\ msg.Type \notin {didDocReq, registerRouteReq})
    => /\ HandlerCalls(calls) = <<>>
       /\ Handled => /\ msgMap.kind = "ErrorResp"
                     /\ msgMap.Type = msg.Type
                     /\ Contains(msgMap.Data, msg.Type)
                     /\ msgMap.Data = <<"unsupported message service type : ">> \o msg.Type
       /\ Replied => /\ NCalls(calls, "ReplyTo") = 1
                     /\ calls[1].msgMap = msgMap
                     /\ (ch # <<>> => ENABLED Dequeue)

\* C8 witness: the reply for a message of unknown type was sent and the next
\* message is waiting in the channel.
C8_Witness ==
    /\ Replied
    /\ msg.Type = otherType
    /\ msgMap.kind = "ErrorResp"
    /\ NCalls(calls, "ReplyTo") = 1
    /\ ch # <<>>

\* C9: if CreateConnection fails with error E, Register is not called and
\* the reply is an ErrorResp tagged register-route-resp (not
\* register-route-req) whose message contains E's text.
C9_ConnError ==
    \A i \in 1..Len(calls) :
        (calls[i].op = "CreateConnection" /\ calls[i].err # nil)
        => /\ NCalls(calls, "Register") = 0
           /\ NCalls(calls, "CreateConnection") = 1
           /\ msgMap.kind = "ErrorResp"
           /\ msgMap.Type = registerRouteResp
           /\ msgMap.Type # registerRouteReq
           /\ Contains(msgMap.Data, calls[i].err)
           /\ \A e \in ConnErrs \ {calls[i].err} : ~Contains(msgMap.Data, e)
           /\ RepliesCarry(msgMap)

\* C9 witness: CreateConnection failed with E2 and the reply was sent.
C9_Witness ==
    /\ Replied
    /\ NCalls(calls, "CreateConnection") = 1
    /\ CallsOf(calls, "CreateConnection")[1].err = <<"E2">>
    /\ msgMap.kind = "ErrorResp"

\* The values written by the successful puts under key k, oldest first.
PutsUnder(ps, k) == SelectSeq(ps, LAMBDA p : p[1] = k)

\* C10: last write wins.  A put under a key that is already present is not
\* rejected and replaces the value, so the store always holds, under every
\* key, the value of the most recent put; a registration request calls
\* CreateConnection with that value as myDID, and not with the value of an
\* earlier document request that used the same id.
C10_LastWriteWins ==
    /\ DOMAIN tStore = {puts[i][1] : i \in 1..Len(puts)}
    /\ \A k \in DOMAIN tStore : tStore[k] = LastPut(puts, k)
    /\ \A i \in 1..Len(calls) :
          calls[i].op = "CreateConnection"
          => /\ calls[i].myDID = LastPut(puts, msg.ParentThreadID)
             /\ \A j \in 1..(Len(PutsUnder(puts, msg.ParentThreadID)) - 1) :
                   calls[i].myDID # PutsUnder(puts, msg.ParentThreadID)[j][2]

\* C10 witness: two document requests with the same id were both stored and
\* a registration request against that id called CreateConnection with the
\* identity written by the second.
C10_Witness ==
    /\ Replied
    /\ msg.Type = registerRouteReq
    /\ Len(PutsUnder(puts, msg.ParentThreadID)) = 2
    /\ NCalls(calls, "CreateConnection") = 1
    /\ CallsOf(calls, "CreateConnection")[1].myDID = PutsUnder(puts, msg.ParentThreadID)[2][2]
    /\ CallsOf(calls, "CreateConnection")[1].myDID # PutsUnder(puts, msg.ParentThreadID)[1][2]

\* The names of the calls in cs, in order.
Ops(cs) == [i \in 1..Len(cs) |-> cs[i].op]

\* C11: the registration handler checks, in this order, that the payload
\* decodes, that parentId is not empty, that the document is present and
\* that the document parses, and only then reads the store; the first check
\* that fails decides the error reply and nothing after it runs.  So an empty
\* parentId wins over an absent document, and an unparseable document wins
\* over an unknown parentId, without the store being read.
C11_ValidationOrder ==
    (Handled /\ msg.Type = registerRouteReq)
    => /\ ~msg.decodable
          => /\ msgMap.Data = <<"parse didcomm message : ">> \o errDecode
             /\ Ops(HandlerCalls(calls)) = <<"Decode">>
       /\ (msg.decodable /\ msg.ParentThreadID = "")
          => /\ msgMap.Data = <<"parent thread id mandatory">>
             /\ Ops(HandlerCalls(calls)) = <<"Decode">>
       /\ (msg.decodable /\ msg.ParentThreadID # "" /\ ~(msg.body.hasData /\ msg.body.hasDIDDoc))
          => /\ msgMap.Data = <<"did document mandatory">>
             /\ Ops(HandlerCalls(calls)) = <<"Decode">>
       /\ ( /\ msg.decodable /\ msg.ParentThreadID # ""
            /\ msg.body.hasData /\ msg.body.hasDIDDoc /\ msg.body.DIDDoc = malformed )
          => /\ msgMap.kind = "ErrorResp"
             /\ msgMap.Data[1] = "parse did doc : "
             /\ Ops(HandlerCalls(calls)) = <<"Decode", "ParseDocument">>
       /\ ValidConnReq(msg)
          => /\ Len(HandlerCalls(calls)) >= 3
             /\ SubSeq(Ops(HandlerCalls(calls)), 1, 3) = <<"Decode", "ParseDocument", "Get">>

\* C11 witness: a request with an unparseable document and a parentId that
\* is not in the store was answered with the parse error.
C11_Witness ==
    /\ Replied
    /\ msg.Type = registerRouteReq /\ msg.decodable
    /\ msg.body.DIDDoc = malformed
    /\ msg.ParentThreadID # "" /\ msg.ParentThreadID \notin DOMAIN tStore
    /\ msgMap.Data[1] = "parse did doc : "
    /\ NCalls(calls, "Get") = 0

\* C12: one worker handles the messages one at a time in arrival order.  No
\* message is skipped or lost, the worker holds at most one message, and it
\* takes message n+1 only after the reply attempt for message n has
\* returned; so the ReplyTo calls are made for messages 1, 2, 3, ... in that
\* order, one each.
C12_OneAtATime ==
    /\ nDeq + Len(ch) = nEnq
    /\ pc \in {"handle", "reply"} => nDeq >= 1 /\ replied = [i \in 1..(nDeq - 1) |-> i]
    /\ pc = "recv" => replied = [i \in 1..nDeq |-> i]
    /\ (pc = "recv" /\ ch # <<>>) => ENABLED (Dequeue /\ msg' = Head(ch))

\* C12 witness: three messages have been through the loop and a reply
\* attempt was made for each, in order.
C12_Witness ==
    /\ pc = "recv"
    /\ nDeq = 3
    /\ replied = <<1, 2, 3>>

\* C13: when ReplyTo fails the listener neither stops nor sends again: it is
\* back at the receive with the channel untouched, ready for the next
\* message, one ReplyTo call was made, and what the handler committed (the
\* transaction entries, the connections created, the mediator's
\* registrations) is exactly as the handler left it.
C13_ReplyFailure ==
    [][ (pc = "reply" /\ lastReplyErr' # nil /\ replied' # replied)
        => /\ pc' = "recv"
           /\ started'
           /\ ch' = ch
           /\ Len(replied') = Len(replied) + 1
           /\ NCalls(calls', "ReplyTo") = 1
           /\ tStore' = tStore
           /\ puts' = puts
           /\ conns' = conns
           /\ registered' = registered
      ]_vars

\* C13 witness: the reply to a document request could not be sent, and the
\* registration request that came next, against the entry that request had
\* written, has been handled successfully.
C13_Witness ==
    /\ pc = "reply"
    /\ lastReplyErr # nil
    /\ nDeq = 2
    /\ msgMap.kind = "ConnResp"
    /\ Len(puts) = 1
    /\ CallsOf(calls, "CreateConnection")[1].myDID = puts[1][2]

\* C14: under fair scheduling of the listener, every message put on the
\* channel is eventually answered: the n-th message enqueued is eventually
\* the n-th message for which ReplyTo is called, whatever happened to the
\* messages before it; and the reply passed to ReplyTo is always one of the
\* three typed responses.
C14_EventuallyAnswered ==
    /\ \A n \in 1..MaxMsgs : (nEnq >= n) ~> (Len(replied) >= n /\ replied[n] = n)
    /\ [](Replied => calls[Len(calls)].msgMap.kind \in {"DIDDocResp", "ConnResp", "ErrorResp"})

\* C14 witness: every message enqueued has been answered, the last one with
\* an error reply whose send failed.
C14_Witness ==
    /\ pc = "recv"
    /\ ch = <<>>
    /\ nEnq = 2
    /\ replied = <<1, 2>>
    /\ herr # nil
    /\ lastReplyErr # nil

\* The most recent successful put under key k (k has been written).
LastPutUnder(ps, k) == PutsUnder(ps, k)[Len(PutsUnder(ps, k))]

\* C15: the document handler does not roll back.  When creation succeeded
\* and serialization failed, the reply is an ErrorResp tagged diddoc-resp
\* and the store holds the new document's id under the message's id; a later
\* valid registration request against that id finds the entry and, its calls
\* succeeding, is answered with a ConnResp after CreateConnection was called
\* with that document's id.
C15_NoRollback ==
    /\ ( /\ Handled /\ msg.Type = didDocReq
         /\ NCalls(calls, "Create") = 1 /\ CallsOf(calls, "Create")[1].err = nil
         /\ NCalls(calls, "JSONBytes") = 1 /\ CallsOf(calls, "JSONBytes")[1].err # nil )
       => /\ msgMap.kind = "ErrorResp"
          /\ msgMap.Type = didDocResp
          /\ msgMap.Data[1] = "marshal did doc : "
          /\ msg.ID \in DOMAIN tStore
          /\ tStore[msg.ID] = CallsOf(calls, "Create")[1].doc.ID
          /\ LastPutUnder(puts, msg.ID) = <<msg.ID, tStore[msg.ID], CallsOf(calls, "JSONBytes")[1].err>>
    /\ ( /\ Handled /\ ValidConnReq(msg) /\ AllOK(calls)
         /\ PutsUnder(puts, msg.ParentThreadID) # <<>>
         /\ LastPutUnder(puts, msg.ParentThreadID)[3] # nil )
       => /\ msgMap.kind = "ConnResp"
          /\ NCalls(calls, "CreateConnection") = 1
          /\ CallsOf(calls, "CreateConnection")[1].myDID = LastPutUnder(puts, msg.ParentThreadID)[2]

\* C15 witness: a registration request against the id of a document request
\* whose serialization had failed was answered with a ConnResp.
C15_Witness ==
    /\ Replied
    /\ ValidConnReq(msg)
    /\ PutsUnder(puts, msg.ParentThreadID) # <<>>
    /\ LastPutUnder(puts, msg.ParentThreadID)[3] # nil
    /\ msgMap.kind = "ConnResp"

\* The connections created with myDID = d that the mediator has registered.
RegisteredFor(cs, reg, d) == {i \in 1..Len(cs) : cs[i][2] = d /\ cs[i][1] \in reg}

\* C16: a successful registration does not consume the transaction.  A
\* valid registration request whose parentId is in the store and whose calls
\* all succeed leaves the store as it was, whether or not the same
\* transaction has already been used: it calls CreateConnection with the
\* stored value as myDID, registers the new connection with the mediator
\* (one more registered connection for that myDID) and is answered with a
\* ConnResp.
C16_NotConsumed ==
    [][ ( /\ pc = "handle" /\ pc' = "reply"
          /\ ValidConnReq(msg)
          /\ msg.ParentThreadID \in DOMAIN tStore
          /\ AllOK(calls') )
        => /\ tStore' = tStore
           /\ msgMap'.kind = "ConnResp"
           /\ NCalls(calls', "CreateConnection") = 1
           /\ NCalls(calls', "Register") = 1
           /\ CallsOf(calls', "CreateConnection")[1].myDID = tStore[msg.ParentThreadID]
           /\ Len(conns') = Len(conns) + 1
           /\ conns'[Len(conns')][2] = tStore[msg.ParentThreadID]
           /\ Cardinality(RegisteredFor(conns', registered', tStore[msg.ParentThreadID]))
                = Cardinality(RegisteredFor(conns, registered, tStore[msg.ParentThreadID])) + 1
      ]_vars

\* C16 witness: the same transaction was used by two successful
\* registrations and is still in the store.
C16_Witness ==
    /\ Replied
    /\ ValidConnReq(msg)
    /\ msgMap.kind = "ConnResp"
    /\ msg.ParentThreadID \in DOMAIN tStore
    /\ Len(puts) = 1
    /\ Cardinality(RegisteredFor(conns, registered, tStore[msg.ParentThreadID])) = 2

\* The position in cs of the first call to op (op is called in cs).
Pos(cs, op) == CHOOSE i \in 1..Len(cs) : cs[i].op = op /\ \A j \in 1..(i - 1) : cs[j].op # op

\* C17: within one registration request the store Get, CreateConnection and
\* Register are each called at most once and in that order.  CreateConnection
\* is called only after a successful Get and with the value read; Register
\* is called only after CreateConnection succeeded and with the connection
\* id it returned.  If Register fails, the reply is an ErrorResp tagged
\* register-route-resp and the connection just created still exists,
\* unregistered.
C17_CallOrder ==
    msg.Type = registerRouteReq
    => /\ NCalls(calls, "Get") <= 1
       /\ NCalls(calls, "CreateConnection") <= 1
       /\ NCalls(calls, "Register") <= 1
       /\ NCalls(calls, "CreateConnection") = 1
          => /\ NCalls(calls, "Get") = 1
             /\ Pos(calls, "Get") < Pos(calls, "CreateConnection")
             /\ calls[Pos(calls, "Get")].key = msg.ParentThreadID
             /\ calls[Pos(calls, "Get")].err = nil
             /\ calls[Pos(calls, "CreateConnection")].myDID = calls[Pos(calls, "Get")].val
       /\ NCalls(calls, "Register") = 1
          => /\ NCalls(calls, "CreateConnection") = 1
             /\ Pos(calls, "CreateConnection") < Pos(calls, "Register")
             /\ calls[Pos(calls, "CreateConnection")].err = nil
             /\ calls[Pos(calls, "Register")].connectionID
                  = calls[Pos(calls, "CreateConnection")].connID
             /\ conns # <<>>
             /\ conns[Len(conns)] = << calls[Pos(calls, "CreateConnection")].connID,
                                       calls[Pos(calls, "CreateConnection")].myDID >>
             /\ calls[Pos(calls, "Register")].err = nil
                => calls[Pos(calls, "Register")].connectionID \in registered
             /\ calls[Pos(calls, "Register")].err # nil
                => /\ msgMap.kind = "ErrorResp"
                   /\ msgMap.Type = registerRouteResp
                   /\ msgMap.Data = <<"route registration : ">> \o calls[Pos(calls, "Register")].err
                   /\ calls[Pos(calls, "CreateConnection")].connID \notin registered

\* C17 witness: Register failed for a connection that had just been created,
\* and the error reply was sent.
C17_Witness ==
    /\ Replied
    /\ NCalls(calls, "Register") = 1
    /\ CallsOf(calls, "Register")[1].err # nil
    /\ msgMap.kind = "ErrorResp"
    /\ conns # <<>>
    /\ conns[Len(conns)][1] = CallsOf(calls, "Register")[1].connectionID

\* C18: construction ensures the transaction store idempotently.  New
\* succeeds, and starts the listener, exactly when CreateStore succeeded or
\* reported that the store already exists, OpenStore succeeded and the
\* registrar accepted the two message services.  In every other case New
\* returns an error naming the failed step, the listener is never started
\* and no message is ever taken, handled or answered.
C18_Construction ==
    /\ started <=> (cfg.cs \in {nil, errDuplicateStore} /\ cfg.os = nil /\ cfg.rg = nil)
    /\ started <=> newErr = nil
    /\ cfg.cs = errCreateStore => newErr = <<"store: ">> \o errCreateStore
    /\ (cfg.cs # errCreateStore /\ cfg.os # nil) => newErr = <<"store: ">> \o errOpenStore
    /\ (cfg.cs # errCreateStore /\ cfg.os = nil /\ cfg.rg # nil)
       => newErr = <<"message service client: ">> \o errRegistrar
    /\ ~started => /\ nDeq = 0
                   /\ msg = noMsg /\ pc = "recv"
                   /\ calls = <<>> /\ replied = <<>> /\ logs = <<>>
                   /\ tStore = <<>> /\ conns = <<>> /\ registered = {}

\* C18 witness: a service built over a store that already existed has
\* answered a document request.
C18_Witness ==
    /\ cfg.cs = errDuplicateStore
    /\ started
    /\ Replied
    /\ msgMap.kind = "DIDDocResp"

\* The log entries for msg that carry the success marker at info severity.
SuccessLogs == SelectSeq(logs, LAMBDA l : l.level = "info" /\ l.text = <<"success">>)

\* The log entries for msg at error severity.
ErrorLogs == SelectSeq(logs, LAMBDA l : l.level = "error")

\* The reply for msg was attempted and ReplyTo returned no error.
ReplySent ==
    /\ Replied
    /\ calls # <<>>
    /\ calls[Len(calls)].op = "ReplyTo"
    /\ calls[Len(calls)].err = nil

\* C19 as stated: the success entry is written only when the handler
\* succeeded and the reply was sent; a message whose handler returned an
\* error, or whose reply could not be sent, gets no success entry.
C19_Original ==
    /\ SuccessLogs # <<>> => (herr = nil /\ ReplySent)
    /\ (Handled /\ herr # nil) => (ErrorLogs # <<>> /\ SuccessLogs = <<>>)
    /\ (Replied /\ ~ReplySent) => SuccessLogs = <<>>

\* C19 (amended): the success entry is written for a message exactly when
\* its reply was sent, whether the reply is a success response or an error
\* response, and at most once; a message whose handler returned an error is
\* logged at error severity with its type, id and the error text first; a
\* message whose reply could not be sent is logged at error severity and
\* gets no success entry.
C19_SuccessLog ==
    /\ SuccessLogs # <<>> <=> ReplySent
    /\ Len(SuccessLogs) <= 1
    /\ \A i \in 1..Len(logs) : logs[i].msgType = msg.Type /\ logs[i].id = msg.ID
    /\ (Handled /\ herr # nil)
       => /\ logs[1].level = "error" /\ logs[1].text = herr /\ logs[1].prefix = ""
          /\ ReplySent => Len(logs) = 2 /\ logs[2].level = "info"
    /\ (Handled /\ herr = nil /\ ReplySent) => (Len(logs) = 1 /\ logs[1].level = "info")
    /\ (Replied /\ ~ReplySent)
       => /\ SuccessLogs = <<>>
          /\ logs[Len(logs)].level = "error"
          /\ logs[Len(logs)].prefix = "sendReply"
          /\ logs[Len(logs)].text = calls[Len(calls)].err

\* C19 witness: a message whose handler failed had its error reply sent and
\* has both an error entry and a success entry.
C19_Witness ==
    /\ Replied
    /\ herr # nil
    /\ ReplySent
    /\ Len(ErrorLogs) = 1
    /\ Len(SuccessLogs) = 1

\* C20: the transaction store changes only when a document request whose
\* identity creation succeeded is handled, and then only under that
\* message's id; every other step (a registration request, successful or
\* not, a message of unsupported type, a document request whose creation
\* failed, a reply, a receive) leaves every entry as it was, and no step
\* removes a key.
C20_StoreFrame ==
    [][ /\ DOMAIN tStore \subseteq DOMAIN tStore'
        /\ \A k \in DOMAIN tStore : k # msg.ID => tStore'[k] = tStore[k]
        /\ tStore' # tStore
           => /\ pc = "handle" /\ pc' = "reply"
              /\ msg.Type = didDocReq
              /\ NCalls(calls', "Create") = 1
              /\ CallsOf(calls', "Create")[1].err = nil
              /\ DOMAIN tStore' = DOMAIN tStore \cup {msg.ID}
              /\ tStore'[msg.ID] = CallsOf(calls', "Create")[1].doc.ID
      ]_vars

\* C20 witness: with two transactions in the store, a registration request
\* against one of them has succeeded and both are still there.
C20_Witness ==
    /\ Replied
    /\ msg.Type = registerRouteReq
    /\ msgMap.kind = "ConnResp"
    /\ Cardinality(DOMAIN tStore) = 2
    /\ \A k \in DOMAIN tStore : tStore[k] = LastPut(puts, k)

====
